---- MODULE Spec2Model ----
(***************************************************************************)
(* Trade-idea ingestion and bracket-order dispatch of ib_bridge:           *)
(* the polling coordinator poll_cashbox_service of ib_bridge_stp2.py       *)
(* (stop-entry policy) and of ib_bridge.py (entry-only policy), with the   *)
(* cursor file last_processed_id.txt, the feed, the broker session and     *)
(* process crashes and restarts as the environment.                        *)
(***************************************************************************)
EXTENDS Integers, Sequences, FiniteSets, TLC

\* ------------------------------------------------------------------ bounds
\* Longest batch the feed returns in one fetch.
MaxBatch == 2
\* Number of fetches of the feed over the whole run (all process lifetimes).
MaxPolls == 2
\* Number of times the process is killed from outside.
MaxCrashes == 1
\* Calls made to the order id allocator when it is driven on its own.
MaxCalls == 4
\* Alert rows per channel that turn up in esp..a over the whole run.
MaxAlerts == 2
\* Passes of the while loop of on_ready.
MaxCycles == 2

\* ------------------------------------------------------- program constants
MAX_ORDERS == 15
\* The literal ceiling of place_orders_if_under_limit.
ORDER_LIMIT == 15
\* retry_count of fetch_latest_price (ib_bridge_stp2.py).
retry_count == 3

\* The two programs modelled.
STP2 == "ib_bridge_stp2"
ENTRY == "ib_bridge"
Scripts == {STP2, ENTRY}

\* Identifiers the feed hands out; 9 and 100 order differently as numbers and
\* as decimal strings.
IdUniverse == {9, 100, 101}
\* Values a quote field (ticker.last, ticker.close) can show; 0 stands for
\* every value that is not positive (no data yet).
QuoteValues == {0, 5000}
\* Open-order counts per side the broker can hold: one below the ceiling, and
\* at it.
OpenCounts == {14, 15}

\* [ORDER] section of the .cfg file of ib_bridge_stp2.py.
ConfigStp2 ==
    [quantity |-> 1, stop_offset |-> 2, limit_offset |-> 3,
     stop_loss_offset |-> -10, take_profit_offset |-> 15]
\* [ORDER] section of the .cfg file of ib_bridge.py.
ConfigEntry ==
    [entry_price_offset |-> 2, stop_loss_price |-> 10, limit_price |-> 15]

\* ------------------------------------------------------------ basic values
\* Python's None, and a present value.
None == <<>>
Some(x) == <<x>>
IsNone(o) == o = <<>>
Val(o) == o[1]

Max(S) == CHOOSE x \in S : \A y \in S : y <= x

\* str(n) for n >= 0: the decimal digits, most significant first.
RECURSIVE Str(_)
Str(n) == IF n < 10 THEN <<n>> ELSE Append(Str(n \div 10), n % 10)

\* int(s) of a non-empty digit string.
RECURSIVE ParseDigits(_)
ParseDigits(s) ==
    IF Len(s) = 0 THEN 0
    ELSE 10 * ParseDigits(SubSeq(s, 1, Len(s) - 1)) + s[Len(s)]

\* Python's str < str on digit strings: lexicographic, a proper prefix first.
RECURSIVE StrLess(_, _)
StrLess(a, b) ==
    IF Len(b) = 0 THEN FALSE
    ELSE IF Len(a) = 0 THEN TRUE
    ELSE IF a[1] # b[1] THEN a[1] < b[1]
    ELSE StrLess(Tail(a), Tail(b))

\* The JSON value of a trade's ID field: an integer, or a string of digits.
IntID(n) == [tag |-> "int", n |-> n, s |-> <<>>]
StrID(n) == [tag |-> "str", n |-> 0, s |-> Str(n)]
\* int(trade["ID"])
IntOf(id) == IF id.tag = "int" THEN id.n ELSE ParseDigits(id.s)

\* x['ID'] < y['ID'] on two values of the same type.
RawLess(a, b) == IF a.tag = "int" THEN a.n < b.n ELSE StrLess(a.s, b.s)

\* The two sort keys: int(t["ID"]) and the raw x['ID'].
KeyLess(key, a, b) ==
    IF key = "int" THEN IntOf(a) < IntOf(b) ELSE RawLess(a, b)

\* sorted(): a stable insertion sort under the key's "less".
RECURSIVE InsertBy(_, _, _)
InsertBy(key, x, s) ==
    IF Len(s) = 0 THEN <<x>>
    ELSE IF KeyLess(key, x.ID, s[1].ID) THEN <<x>> \o s
    ELSE <<s[1]>> \o InsertBy(key, x, Tail(s))

RECURSIVE SortedBy(_, _)
SortedBy(key, s) ==
    IF Len(s) = 0 THEN <<>>
    ELSE InsertBy(key, s[Len(s)], SortedBy(key, SubSeq(s, 1, Len(s) - 1)))

\* ------------------------------------------------------------ cursor store
\* last_processed_id.txt: whether it exists, and its text (a digit string;
\* <<>> is the empty file that open(path, "w") leaves before the data lands).
NoFile == [exists |-> FALSE, text |-> <<>>]
FileWith(text) == [exists |-> TRUE, text |-> text]

\* read_last_processed_id of ib_bridge_stp2.py: 0 when the file is missing or
\* its text is no integer.
read_last_processed_id_stp2(f) ==
    IF f.exists /\ Len(f.text) > 0 THEN Some(ParseDigits(f.text)) ELSE Some(0)

\* read_last_processed_id of ib_bridge.py: None in those cases.
read_last_processed_id_entry(f) ==
    IF f.exists /\ Len(f.text) > 0 THEN Some(ParseDigits(f.text)) ELSE None

\* ------------------------------------------------------------ price oracle
Quotes == [last : QuoteValues, close : QuoteValues]

\* QuotePrice looking at close before last.
QuotePrice_closeFirst(q) ==
    IF q.close > 0 THEN Some(q.close)
    ELSE IF q.last > 0 THEN Some(q.last)
    ELSE None

\* One look at the ticker: last if positive, else close if positive, else
\* nothing.
QuotePrice(q) ==
    IF q.last > 0 THEN Some(q.last)
    ELSE IF q.close > 0 THEN Some(q.close)
    ELSE None

\* fetch_latest_price of ib_bridge_stp2.py over the quotes its attempts see;
\* None stands for the ValueError raised after the last attempt.
RECURSIVE fetch_latest_price_stp2(_)
fetch_latest_price_stp2(qs) ==
    IF Len(qs) = 0 THEN None
    ELSE IF ~IsNone(QuotePrice(qs[1])) THEN QuotePrice(qs[1])
    ELSE fetch_latest_price_stp2(Tail(qs))

\* fetch_latest_price of ib_bridge.py: one attempt.
fetch_latest_price_entry(q) == QuotePrice(q)

\* What the two fetch_latest_price can come back with, over every course the
\* quotes can take: Some(price), or None for the ValueError.
PriceResultsStp2 ==
    {fetch_latest_price_stp2(qs) : qs \in [1..retry_count -> Quotes]}
PriceResultsEntry == {fetch_latest_price_entry(q) : q \in Quotes}

\* The quotes a call of fetch_latest_price is followed through: last and close
\* differ, so that the choice between them shows.
TickValues == {0, 4990, 5000}
TickQuotes == [last : TickValues, close : TickValues]

\* ---------------------------------------------------------- action mapping
\* trade.get('BuySell', '').strip().upper() on the codes the feed sends.
StripUpper(c) ==
    CASE c = "l" -> "L"
      [] c = "s" -> "S"
      [] c = "b" -> "B"
      [] OTHER -> c

\* process_trade_idea of ib_bridge_stp2.py: action_map = {'L': 'BUY', 'S': 'SELL'};
\* None when the code is not in the map.
MapActionStp2(c) ==
    CASE StripUpper(c) = "L" -> Some("BUY")
      [] StripUpper(c) = "S" -> Some("SELL")
      [] OTHER -> None

\* process_trade_idea of ib_bridge.py: 'S' -> SELL, 'B' -> BUY, else skip.
MapActionEntry(c) ==
    CASE c = "S" -> Some("SELL")
      [] c = "B" -> Some("BUY")
      [] OTHER -> None

\* The children on the side of the entry.
Opposite_same(action) == action

\* 'SELL' if action == 'BUY' else 'BUY'
Opposite(action) == IF action = "BUY" THEN "SELL" ELSE "BUY"
Abs(x) == IF x < 0 THEN -x ELSE x

\* ---------------------------------------------------------- bracket builder
\* An ib_insync Order as the broker sees it. lmtPrice and auxPrice are 0 when
\* the order type leaves them unset; orderId and parentId default to 0 and
\* transmit to TRUE.
Order(role, orderType, action, qty, lmt, aux) ==
    [role |-> role, orderType |-> orderType, action |-> action,
     totalQuantity |-> qty, lmtPrice |-> lmt, auxPrice |-> aux,
     orderId |-> 0, parentId |-> 0, transmit |-> TRUE]

\* initialize_order_id taking a fresh id from the broker on every call.
initialize_order_id_always(counter, reqId) == Some(reqId)

\* initialize_order_id: the global becomes ib.client.getReqId() when it is
\* None, and stays as it is otherwise (counter is the global before the call,
\* reqId what getReqId would return).
initialize_order_id(counter, reqId) ==
    IF IsNone(counter) THEN Some(reqId) ELSE counter

\* get_next_order_id adding 2.
get_next_order_id_by2(counter) == counter + 2

\* get_next_order_id with the increment left out.
get_next_order_id_stuck(counter) == counter

\* get_next_order_id: ORDER_ID_COUNTER += 1, and the new value is returned
\* (counter is the global before the call).
get_next_order_id(counter) == counter + 1

\* A get_next_order_id call that counts from 0 when the global is None.
get_next_order_id_call_lenient(g) ==
    LET c == IF IsNone(g) THEN 0 ELSE Val(g)
    IN [raised |-> FALSE, id |-> Some(get_next_order_id(c)),
        counter |-> Some(get_next_order_id(c))]

\* One call get_next_order_id() with the global at g (None or Some(n)):
\* `ORDER_ID_COUNTER += 1` raises TypeError on None, before anything is
\* assigned or returned; otherwise the global and the returned id are the
\* incremented value.
get_next_order_id_call(g) ==
    IF IsNone(g)
    THEN [raised |-> TRUE, id |-> None, counter |-> g]
    ELSE [raised |-> FALSE, id |-> Some(get_next_order_id(Val(g))),
          counter |-> Some(get_next_order_id(Val(g)))]

\* The allocator calls of process_trade_idea of ib_bridge_stp2.py on the path
\* that reaches them, with the global at g and getReqId about to return reqId:
\* initialize_order_id(ib), then the three get_next_order_id() calls of
\* bracket_order. A raise in the first one ends the function.
allocate_bracket_ids(g, reqId) ==
    LET seeded == initialize_order_id(g, reqId)
        first == get_next_order_id_call(seeded)
        second == get_next_order_id_call(first.counter)
        third == get_next_order_id_call(second.counter)
    IN IF first.raised
       THEN [raised |-> TRUE, ids |-> <<>>, counter |-> seeded]
       ELSE [raised |-> FALSE,
             ids |-> << Val(first.id), Val(second.id), Val(third.id) >>,
             counter |-> third.counter]

\* bracket_order of ib_bridge_stp2.py with the Entry left at the default
\* transmit = True and the StopLoss leg naming itself as parent.
bracket_order_stp2_unlinked(c, action, quantity, stop_price, limit_price, stop_loss_price, take_profit_price) ==
    << [Order("Entry", "STP LMT", action, quantity, limit_price, stop_price)
          EXCEPT !.orderId = c + 1],
       [Order("TakeProfit", "LMT", Opposite(action), quantity,
              take_profit_price, 0)
          EXCEPT !.orderId = c + 2, !.parentId = c + 1, !.transmit = FALSE],
       [Order("StopLoss", "STP", Opposite(action), quantity, 0,
              stop_loss_price)
          EXCEPT !.orderId = c + 3, !.parentId = c + 3, !.transmit = TRUE] >>

\* bracket_order of ib_bridge_stp2.py with transmit = True already on the
\* TakeProfit leg.
bracket_order_stp2_eager(c, action, quantity, stop_price, limit_price, stop_loss_price, take_profit_price) ==
    << [Order("Entry", "STP LMT", action, quantity, limit_price, stop_price)
          EXCEPT !.orderId = c + 1, !.transmit = FALSE],
       [Order("TakeProfit", "LMT", Opposite(action), quantity,
              take_profit_price, 0)
          EXCEPT !.orderId = c + 2, !.parentId = c + 1, !.transmit = TRUE],
       [Order("StopLoss", "STP", Opposite(action), quantity, 0,
              stop_loss_price)
          EXCEPT !.orderId = c + 3, !.parentId = c + 1, !.transmit = TRUE] >>

\* bracket_order of ib_bridge_stp2.py, with ORDER_ID_COUNTER = c on entry:
\* the three get_next_order_id() calls, each on the counter the one before
\* left.
bracket_order_stp2(c, action, quantity, stop_price, limit_price, stop_loss_price, take_profit_price) ==
    LET parent_order_id == get_next_order_id(c)
        take_profit_id == get_next_order_id(parent_order_id)
        stop_loss_id == get_next_order_id(take_profit_id)
    IN << [Order("Entry", "STP LMT", action, quantity, limit_price,
                 stop_price)
             EXCEPT !.orderId = parent_order_id, !.transmit = FALSE],
          [Order("TakeProfit", "LMT", Opposite(action), quantity,
                 take_profit_price, 0)
             EXCEPT !.orderId = take_profit_id, !.parentId = parent_order_id,
                    !.transmit = FALSE],
          [Order("StopLoss", "STP", Opposite(action), quantity, 0,
                 stop_loss_price)
             EXCEPT !.orderId = stop_loss_id, !.parentId = parent_order_id,
                    !.transmit = TRUE] >>

\* The attributes bracket_order of ib_bridge.py sets are OrderId, ParentId and
\* Transmit: new attributes of the object, beside the fields orderId, parentId
\* and transmit that the Order was constructed with.
WithAttrs(o, OrderId, ParentId, Transmit) ==
    [role |-> o.role, orderType |-> o.orderType, action |-> o.action,
     totalQuantity |-> o.totalQuantity, lmtPrice |-> o.lmtPrice,
     auxPrice |-> o.auxPrice, orderId |-> o.orderId, parentId |-> o.parentId,
     transmit |-> o.transmit,
     OrderId |-> OrderId, ParentId |-> ParentId, Transmit |-> Transmit]

\* bracket_order of ib_bridge.py with the two offsets applied the other way
\* round.
bracket_order_entry_inverted(parent_order_id, action, quantity, entry_price, stop_loss_offset, limit_price_offset) ==
    << WithAttrs(Order("Entry", "LMT", action, quantity, entry_price, 0),
                 parent_order_id, 0, FALSE),
       WithAttrs(Order("TakeProfit", "LMT", Opposite(action), quantity,
                       entry_price - limit_price_offset, 0),
                 parent_order_id + 1, parent_order_id, FALSE),
       WithAttrs(Order("StopLoss", "STP", Opposite(action), quantity, 0,
                       entry_price + stop_loss_offset),
                 parent_order_id + 2, parent_order_id, TRUE) >>

\* bracket_order of ib_bridge.py (action is 'BUY' or 'SELL' at its only call).
bracket_order_entry(parent_order_id, action, quantity, entry_price, stop_loss_offset, limit_price_offset) ==
    << WithAttrs(Order("Entry", "LMT", action, quantity, entry_price, 0),
                 parent_order_id, 0, FALSE),
       WithAttrs(Order("TakeProfit", "LMT", Opposite(action), quantity,
                       entry_price + limit_price_offset, 0),
                 parent_order_id + 1, parent_order_id, FALSE),
       WithAttrs(Order("StopLoss", "STP", Opposite(action), quantity, 0,
                       entry_price - stop_loss_offset),
                 parent_order_id + 2, parent_order_id, TRUE) >>

\* The prices of ib_bridge_stp2.py with stop loss and take profit taken from
\* the quote and not from the stop price.
PricesStp2_fromReference(action, latest_price, cfg) ==
    IF action = "BUY"
    THEN [stop_price |-> latest_price + Abs(cfg.stop_offset),
          limit_price |-> latest_price + Abs(cfg.limit_offset),
          stop_loss_price |-> latest_price + cfg.stop_loss_offset,
          take_profit_price |-> latest_price + Abs(cfg.take_profit_offset)]
    ELSE [stop_price |-> latest_price - Abs(cfg.stop_offset),
          limit_price |-> latest_price - Abs(cfg.limit_offset),
          stop_loss_price |-> latest_price + Abs(cfg.stop_loss_offset),
          take_profit_price |-> latest_price - Abs(cfg.take_profit_offset)]

\* The prices process_trade_idea of ib_bridge_stp2.py derives from the quote.
PricesStp2(action, latest_price, cfg) ==
    IF action = "BUY"
    THEN LET stop_price == latest_price + Abs(cfg.stop_offset) IN
         [stop_price |-> stop_price,
          limit_price |-> latest_price + Abs(cfg.limit_offset),
          stop_loss_price |-> stop_price + cfg.stop_loss_offset,
          take_profit_price |-> stop_price + Abs(cfg.take_profit_offset)]
    ELSE LET stop_price == latest_price - Abs(cfg.stop_offset) IN
         [stop_price |-> stop_price,
          limit_price |-> latest_price - Abs(cfg.limit_offset),
          stop_loss_price |-> stop_price + Abs(cfg.stop_loss_offset),
          take_profit_price |-> stop_price - Abs(cfg.take_profit_offset)]

\* The prices process_trade_idea of ib_bridge.py derives from the quote.
PricesEntry(latest_price, cfg) ==
    LET adjusted_entry_price == latest_price + cfg.entry_price_offset IN
    [adjusted_entry_price |-> adjusted_entry_price,
     stop_loss_price |-> adjusted_entry_price - cfg.stop_loss_price,
     target_price |-> adjusted_entry_price + cfg.limit_price]

\* -------------------------------------------------------------------- feed
\* A trade idea is immutable: the feed sends the same BuySell code for an id
\* every time. 'L' is a side only for ib_bridge_stp2.py, 'B' only for
\* ib_bridge.py, 'S' for both.
BuySellOf(n) ==
    CASE n = 100 -> "L"
      [] n = 9 -> "S"
      [] OTHER -> "B"

Trades ==
    { [ID |-> IntID(n), BuySell |-> BuySellOf(n)] : n \in IdUniverse }
    \cup { [ID |-> StrID(n), BuySell |-> BuySellOf(n)] : n \in IdUniverse }

\* What the service can send in one response: up to MaxBatch ideas with
\* distinct ids, in any order.
Batches ==
    UNION { { b \in [1..n -> Trades] :
                \A i, j \in 1..n : i # j => IntOf(b[i].ID) # IntOf(b[j].ID) }
            : n \in 0..MaxBatch }

\* What requests.get and raise_for_status leave fetch_trade_ideas with: the
\* JSON of a good response, or a RequestException.
Responses ==
    { [ok |-> TRUE, json |-> b] : b \in Batches }
    \cup { [ok |-> FALSE, json |-> <<>>] }

\* fetch_trade_ideas with the batch of id 9 handed out after a failed request.
fetch_trade_ideas_stale(response) ==
    IF response.ok THEN response.json
    ELSE << [ID |-> IntID(9), BuySell |-> BuySellOf(9)] >>

\* fetch_trade_ideas: response.json(), or [] when the request raised.
fetch_trade_ideas(response) ==
    IF response.ok THEN response.json ELSE <<>>

\* sorted(trade_ideas, key=lambda t: int(t["ID"]))
SortStp2(b) == SortedBy("int", b)

\* sorted(trade_ideas, key=lambda x: x['ID']): comparing a str with an int
\* raises TypeError.
SameType(b) == \A i, j \in 1..Len(b) : b[i].ID.tag = b[j].ID.tag
SortEntry(b) == SortedBy("raw", b)

\* The filter with >= for >.
IsNewStp2_geq(trade_id, last) == trade_id >= Val(last)

\* if trade_id > last_processed_id
IsNewStp2(trade_id, last) == trade_id > Val(last)
\* The filter of ib_bridge.py letting ideas through only while there is no
\* cursor.
IsNewEntry_onlyUnset(trade_id, last) == IsNone(last)

\* if last_processed_id is None or int(trade['ID']) > last_processed_id
IsNewEntry(trade_id, last) ==
    IF IsNone(last) THEN TRUE ELSE trade_id > Val(last)

\* What the broker holds open for the contract when a bracket is handed over;
\* check_order_limit of ib_bridge.py counts it per side.
OpenBooks ==
    { Some([buy_orders |-> b, sell_orders |-> s]) : b, s \in OpenCounts }

\* ------------------------------------------------------------------- state
VARIABLES
    script,             \* which program runs
    pc,                 \* where the process is
    exitReason,         \* why the process is down
    file,               \* last_processed_id.txt
    last_processed_id,  \* the coordinator's local cursor (None or Some(n))
    trade_ideas,        \* the sorted batch of this cycle
    idx,                \* position of the for loop in trade_ideas
    bracket_orders,     \* the bracket built for the current idea
    sent,               \* legs of it handed to ib.placeOrder so far
    ORDER_ID_COUNTER,   \* the global of ib_bridge_stp2.py (None or Some(n))
    reqIdSeq,           \* what ib.client.getReqId() returns next
    placed,             \* the broker's log of placeOrder calls
    outcome,            \* how the current process_trade_idea call ended
    cursor0,            \* the cursor at the start of this cycle
    dispatched,         \* ids passed to process_trade_idea in this cycle
    submitted,          \* ids whose three legs were placed in this cycle
    open_orders,        \* the broker's open BUY and SELL counts at hand-over
    max_written,        \* largest id a write_last_processed_id call returned with
    polls,              \* fetches so far
    crashes,            \* kills so far
    issued,             \* OrderId values bracket_order of ib_bridge.py has
                        \* given to legs in this process
    fetch_error,        \* the last fetch_trade_ideas caught a RequestException
    ticks,              \* the quotes the ticker shows a fetch_latest_price call
    attempt,            \* its loop variable (attempts finished)
    fetched,            \* where it is, and what it came back with
    calls,              \* calls made to the order id allocator, with results
    passed_channels,    \* the alert bot's sys.argv[1:]
    show_futures,       \* the show_futures setting of the alert bot
    channels_to_process, \* the channels on_ready loops over, in order
    bot_pc,             \* where on_ready is
    ch_i,               \* position of its for loop in channels_to_process
    source_rows,        \* the alert rows of esp..a
    alert_log,          \* the rows committed to discord..alert_log
    posted_rows,        \* the rows that reached a Discord channel in a message
    open_conns,         \* database connections opened and not closed
    cycle,              \* passes of the while loop of on_ready begun so far
    errors,             \* << pass, channel >> of every exception caught
    visited             \* channels fetch_and_post_alerts ran for in this pass

\* The variables of one call of fetch_latest_price of ib_bridge_stp2.py, looked
\* at on its own.
priceVars == << ticks, attempt, fetched >>

\* The variables of the polling loop.
loopVars ==
    << script, pc, exitReason, file, last_processed_id, trade_ideas, idx,
       bracket_orders, sent, ORDER_ID_COUNTER, reqIdSeq, placed, outcome,
       cursor0, dispatched, submitted, open_orders, max_written, polls,
       crashes, issued, fetch_error >>

\* The log of the order id allocator of ib_bridge_stp2.py, driven on its own.
allocVars == << calls >>

\* The variables of the Discord alert bots.
alertVars ==
    << passed_channels, show_futures, channels_to_process, bot_pc, ch_i,
       source_rows, alert_log, posted_rows, open_conns, cycle, errors,
       visited >>

vars == << loopVars, priceVars, allocVars, alertVars >>

\* Variables of one process lifetime, other than pc and last_processed_id.
NoLoopState ==
    /\ trade_ideas = <<>>
    /\ idx = 0
    /\ bracket_orders = <<>>
    /\ sent = 0
    /\ outcome = "none"
    /\ cursor0 = None
    /\ dispatched = <<>>
    /\ submitted = {}
    /\ open_orders = None
    /\ fetch_error = FALSE

\* The polling loop with no process started yet.
LoopAtRest ==
    /\ pc = "start"
    /\ exitReason = "none"
    /\ file = NoFile
    /\ last_processed_id = None
    /\ NoLoopState
    /\ ORDER_ID_COUNTER = None
    /\ reqIdSeq = 1
    /\ placed = <<>>
    /\ max_written = 0
    /\ polls = 0
    /\ crashes = 0
    /\ issued = {}

\* The polling loop before one of the two bridge programs is started.
InitLoop ==
    /\ script \in Scripts
    /\ LoopAtRest

\* No call of fetch_latest_price is being looked at on its own.
IdlePrice ==
    /\ ticks = <<>>
    /\ attempt = 0
    /\ fetched = [state |-> "idle", price |-> None]

\* Nor is the allocator.
IdleAlloc == calls = <<>>

\* No alert bot runs.
IdleAlerts ==
    /\ passed_channels = {}
    /\ show_futures = FALSE
    /\ channels_to_process = <<>>
    /\ bot_pc = "off"
    /\ ch_i = 0
    /\ source_rows = {}
    /\ alert_log = {}
    /\ posted_rows = {}
    /\ open_conns = 0
    /\ cycle = 0
    /\ errors = {}
    /\ visited = <<>>

Init ==
    /\ InitLoop
    /\ IdlePrice
    /\ IdleAlloc
    /\ IdleAlerts

\* The trade the for loop is at, and its id.
trade == trade_ideas[idx]
trade_id == IntOf(trade.ID)

\* The process ends: by an uncaught exception, a return, or a kill.
Down(why) ==
    /\ pc' = "down"
    /\ exitReason' = why
    /\ last_processed_id' = None
    /\ trade_ideas' = <<>>
    /\ idx' = 0
    /\ bracket_orders' = <<>>
    /\ sent' = 0
    /\ outcome' = "none"
    /\ cursor0' = None
    /\ dispatched' = <<>>
    /\ submitted' = {}
    /\ open_orders' = None
    /\ ORDER_ID_COUNTER' = None
    /\ issued' = {}
    /\ fetch_error' = FALSE

\* The broker's next valid id at connect: above every order id it has seen.
NextValidId ==
    1 + Max({0} \cup {placed[k].order.orderId : k \in DOMAIN placed})

\* ------------------------------------------------------- poll_cashbox_service
\* ib_bridge.py reads the cursor once, before connecting; both programs then
\* connect, and return when the connection fails.
Connect ==
    /\ pc = "start"
    /\ last_processed_id' =
         IF script = ENTRY THEN read_last_processed_id_entry(file) ELSE None
    /\ pc' = "poll"
    /\ reqIdSeq' = NextValidId
    /\ UNCHANGED << script, exitReason, file, trade_ideas, idx,
                    bracket_orders, sent, ORDER_ID_COUNTER, placed, outcome,
                    cursor0, dispatched, polls, crashes, submitted,
                    max_written,
                    open_orders,
                    issued, fetch_error, priceVars, allocVars, alertVars >>

ConnectFails ==
    /\ pc = "start"
    /\ Down("connect_failed")
    /\ UNCHANGED << script, file, reqIdSeq, placed, polls, crashes,
                    max_written,
                    priceVars, allocVars, alertVars >>

\* One pass of `while True` of ib_bridge_stp2.py up to the for loop: re-read
\* the cursor, fetch, sort by int(ID).
PollStp2 ==
    /\ pc = "poll"
    /\ script = STP2
    /\ polls < MaxPolls
    /\ \E response \in Responses :
         LET b == fetch_trade_ideas(response)
         IN /\ trade_ideas' = SortStp2(b)
            /\ pc' = IF b = <<>> THEN "sleep" ELSE "iter"
            /\ fetch_error' = ~response.ok
    /\ last_processed_id' = read_last_processed_id_stp2(file)
    /\ cursor0' = last_processed_id'
    /\ idx' = 1
    /\ dispatched' = <<>>
    /\ polls' = polls + 1
    /\ submitted' = {}
    /\ UNCHANGED << script, exitReason, file, bracket_orders, sent,
                    ORDER_ID_COUNTER, reqIdSeq, placed, outcome, crashes,
                    max_written,
                    open_orders,
                    issued, priceVars, allocVars, alertVars >>

\* The same of ib_bridge.py: the cursor is the local one, the sort is on the
\* raw ID values.
PollEntry ==
    /\ pc = "poll"
    /\ script = ENTRY
    /\ polls < MaxPolls
    /\ \E response \in Responses :
         LET b == fetch_trade_ideas(response)
         IN /\ SameType(b)
            /\ trade_ideas' = SortEntry(b)
            /\ pc' = IF b = <<>> THEN "sleep" ELSE "iter"
            /\ fetch_error' = ~response.ok
    /\ cursor0' = last_processed_id
    /\ idx' = 1
    /\ dispatched' = <<>>
    /\ polls' = polls + 1
    /\ submitted' = {}
    /\ UNCHANGED << script, exitReason, file, last_processed_id,
                    bracket_orders, sent, ORDER_ID_COUNTER, reqIdSeq, placed,
                    outcome, crashes, max_written,
                    open_orders,
                    issued, priceVars, allocVars, alertVars >>

\* sorted() of ib_bridge.py on a batch mixing str and int ids: TypeError, which
\* nothing catches.
PollEntryTypeError ==
    /\ pc = "poll"
    /\ script = ENTRY
    /\ polls < MaxPolls
    /\ \E b \in Batches : ~SameType(b)
    /\ polls' = polls + 1
    /\ Down("TypeError")
    /\ UNCHANGED << script, file, reqIdSeq, placed, crashes, max_written,
                    priceVars, allocVars, alertVars >>

IsNew(id) ==
    IF script = STP2 THEN IsNewStp2(id, last_processed_id)
    ELSE IsNewEntry(id, last_processed_id)

\* The for loop reaches a trade whose id is above the cursor: call
\* process_trade_idea.
BeginTrade ==
    /\ pc = "iter"
    /\ idx <= Len(trade_ideas)
    /\ IsNew(trade_id)
    /\ pc' = "process"
    /\ dispatched' = Append(dispatched, trade_id)
    /\ bracket_orders' = <<>>
    /\ sent' = 0
    /\ outcome' = "none"
    /\ UNCHANGED << script, exitReason, file, last_processed_id, trade_ideas,
                    idx, ORDER_ID_COUNTER, reqIdSeq, placed, cursor0, polls,
                    crashes, submitted, max_written,
                    open_orders,
                    issued, fetch_error, priceVars, allocVars, alertVars >>

\* ... or one at or below it: "Ignoring Trade ID".
IgnoreTrade ==
    /\ pc = "iter"
    /\ idx <= Len(trade_ideas)
    /\ ~IsNew(trade_id)
    /\ idx' = idx + 1
    /\ UNCHANGED << script, pc, exitReason, file, last_processed_id,
                    trade_ideas, bracket_orders, sent, ORDER_ID_COUNTER,
                    reqIdSeq, placed, outcome, cursor0, dispatched, polls,
                    crashes, submitted, max_written,
                    open_orders,
                    issued, fetch_error, priceVars, allocVars, alertVars >>

\* The for loop is through the batch.
EndBatch ==
    /\ pc = "iter"
    /\ idx > Len(trade_ideas)
    /\ pc' = "sleep"
    /\ UNCHANGED << script, exitReason, file, last_processed_id, trade_ideas,
                    idx, bracket_orders, sent, ORDER_ID_COUNTER, reqIdSeq,
                    placed, outcome, cursor0, dispatched, polls, crashes,
                    submitted, max_written,
                    open_orders,
                    issued, fetch_error, priceVars, allocVars, alertVars >>

\* time.sleep(30), then the next pass, which overwrites the locals of this one.
Sleep ==
    /\ pc = "sleep"
    /\ pc' = "poll"
    /\ trade_ideas' = <<>>
    /\ idx' = 0
    /\ bracket_orders' = <<>>
    /\ sent' = 0
    /\ outcome' = "none"
    /\ cursor0' = None
    /\ dispatched' = <<>>
    /\ submitted' = {}
    /\ fetch_error' = FALSE
    /\ UNCHANGED << script, exitReason, file, last_processed_id,
                    ORDER_ID_COUNTER, reqIdSeq, placed, polls, crashes,
                    max_written,
                    open_orders,
                    issued, priceVars, allocVars, alertVars >>

\* ---------------------------------------------------------- process_trade_idea
\* process_trade_idea returns without a bracket and the loop moves to the next
\* trade, leaving the cursor alone.
SkipAndContinue(why) ==
    /\ pc' = "iter"
    /\ idx' = idx + 1
    /\ outcome' = why
    /\ UNCHANGED << script, exitReason, file, last_processed_id, trade_ideas,
                    bracket_orders, sent, ORDER_ID_COUNTER, reqIdSeq, placed,
                    cursor0, dispatched, polls, crashes, submitted,
                    max_written,
                    open_orders,
                    issued, fetch_error, priceVars, allocVars, alertVars >>

\* process_trade_idea asking the broker for a request id before it returns
\* without a bracket.
SkipAfterReqId(why) ==
    /\ pc' = "processed"
    /\ outcome' = why
    /\ reqIdSeq' = reqIdSeq + 1
    /\ UNCHANGED << script, exitReason, file, last_processed_id, trade_ideas,
                    idx, bracket_orders, sent, ORDER_ID_COUNTER, placed,
                    cursor0, dispatched, polls, crashes, submitted,
                    max_written, open_orders, issued, fetch_error,
                    priceVars, allocVars, alertVars >>

\* process_trade_idea returns without a bracket.
Skip(why) ==
    /\ pc' = "processed"
    /\ outcome' = why
    /\ UNCHANGED << script, exitReason, file, last_processed_id, trade_ideas,
                    idx, bracket_orders, sent, ORDER_ID_COUNTER, reqIdSeq,
                    placed, cursor0, dispatched, polls, crashes, submitted,
                    max_written,
                    open_orders,
                    issued, fetch_error, priceVars, allocVars, alertVars >>

\* fetch_latest_price raises ValueError; neither process_trade_idea nor
\* poll_cashbox_service catches it.
Raise(why) ==
    /\ Down(why)
    /\ UNCHANGED << script, file, reqIdSeq, placed, polls, crashes,
                    max_written,
                    priceVars, allocVars, alertVars >>

\* ib_bridge_stp2.py: the code is not in action_map.
InvalidActionStp2 ==
    /\ pc = "process"
    /\ script = STP2
    /\ IsNone(MapActionStp2(trade.BuySell))
    /\ Skip("invalid_action")

\* ib_bridge_stp2.py: ib.qualifyContracts returns an empty list.
QualifyFailsStp2 ==
    /\ pc = "process"
    /\ script = STP2
    /\ ~IsNone(MapActionStp2(trade.BuySell))
    /\ Skip("unqualified")

\* ib_bridge_stp2.py: no attempt of fetch_latest_price sees a price.
PriceFailsStp2 ==
    /\ pc = "process"
    /\ script = STP2
    /\ ~IsNone(MapActionStp2(trade.BuySell))
    /\ None \in PriceResultsStp2
    /\ Raise("ValueError")

\* ib_bridge_stp2.py: the prices, initialize_order_id and bracket_order, which
\* leaves ORDER_ID_COUNTER at the id of the last leg.
BuildStp2 ==
    /\ pc = "process"
    /\ script = STP2
    /\ ~IsNone(MapActionStp2(trade.BuySell))
    /\ \E price \in PriceResultsStp2 :
         /\ ~IsNone(price)
         /\ LET action == Val(MapActionStp2(trade.BuySell))
                latest_price == Val(price)
                p == PricesStp2(action, latest_price, ConfigStp2)
                c == Val(initialize_order_id(ORDER_ID_COUNTER, reqIdSeq))
                built == bracket_order_stp2(c, action, ConfigStp2.quantity,
                                            p.stop_price, p.limit_price,
                                            p.stop_loss_price,
                                            p.take_profit_price)
            IN /\ bracket_orders' = built
               /\ ORDER_ID_COUNTER' = Some(built[3].orderId)
    /\ reqIdSeq' = IF IsNone(ORDER_ID_COUNTER) THEN reqIdSeq + 1 ELSE reqIdSeq
    /\ open_orders' \in OpenBooks
    /\ pc' = "place"
    /\ UNCHANGED << script, exitReason, file, last_processed_id, trade_ideas,
                    idx, sent, placed, outcome, cursor0, dispatched, polls,
                    crashes, submitted, max_written,
                    issued, fetch_error, priceVars, allocVars, alertVars >>

\* ib_bridge.py: ib.qualifyContracts returns an empty list.
QualifyFailsEntry ==
    /\ pc = "process"
    /\ script = ENTRY
    /\ Skip("unqualified")

\* ib_bridge.py: the one look at the ticker shows no price.
PriceFailsEntry ==
    /\ pc = "process"
    /\ script = ENTRY
    /\ None \in PriceResultsEntry
    /\ Raise("ValueError")

\* ib_bridge.py: the code is neither 'S' nor 'B' (checked after the price).
InvalidActionEntry ==
    /\ pc = "process"
    /\ script = ENTRY
    /\ \E price \in PriceResultsEntry : ~IsNone(price)
    /\ IsNone(MapActionEntry(trade.BuySell))
    /\ Skip("invalid_action")

\* The limit test with `or` for `and`.
UnderLimit_either(buy_orders, sell_orders) ==
    buy_orders < ORDER_LIMIT \/ sell_orders < ORDER_LIMIT

\* if buy_orders < 15 and sell_orders < 15
UnderLimit(buy_orders, sell_orders) ==
    buy_orders < ORDER_LIMIT /\ sell_orders < ORDER_LIMIT

\* ib_bridge.py: getReqId, bracket_order, then check_order_limit; the orders
\* are placed only under the limit.
BuildEntry ==
    /\ pc = "process"
    /\ script = ENTRY
    /\ ~IsNone(MapActionEntry(trade.BuySell))
    /\ \E price \in PriceResultsEntry :
         /\ ~IsNone(price)
         /\ LET action == Val(MapActionEntry(trade.BuySell))
                latest_price == Val(price)
                p == PricesEntry(latest_price, ConfigEntry)
            IN bracket_orders' =
                 bracket_order_entry(reqIdSeq, action, 1,
                                     p.adjusted_entry_price,
                                     ConfigEntry.stop_loss_price,
                                     ConfigEntry.limit_price)
    /\ reqIdSeq' = reqIdSeq + 1
    /\ issued' = issued \cup {bracket_orders'[k].OrderId : k \in 1..3}
    /\ \E book \in OpenBooks :
         /\ open_orders' = book
         /\ LET buy_orders == Val(book).buy_orders
                sell_orders == Val(book).sell_orders
            IN IF UnderLimit(buy_orders, sell_orders)
               THEN pc' = "place" /\ outcome' = outcome
               ELSE pc' = "processed" /\ outcome' = "throttled"
    /\ UNCHANGED << script, exitReason, file, last_processed_id, trade_ideas,
                    idx, sent, ORDER_ID_COUNTER, placed, cursor0, dispatched,
                    polls, crashes, submitted, max_written,
                    fetch_error, priceVars, allocVars, alertVars >>

\* ib.placeOrder(contract, order) on the next leg. ib_insync gives an order
\* whose orderId is 0 the next request id.
PlaceOrder ==
    /\ pc = "place"
    /\ sent < Len(bracket_orders)
    /\ LET order == bracket_orders[sent + 1]
           id == IF order.orderId = 0 THEN reqIdSeq ELSE order.orderId
       IN /\ placed' = Append(placed,
                 [idea |-> trade_id, order |-> [order EXCEPT !.orderId = id]])
          /\ reqIdSeq' = IF order.orderId = 0 THEN reqIdSeq + 1 ELSE reqIdSeq
    /\ sent' = sent + 1
    /\ IF sent' = Len(bracket_orders)
       THEN /\ pc' = "processed"
            /\ outcome' = "submitted"
            /\ submitted' = submitted \cup {trade_id}
       ELSE /\ pc' = pc
            /\ outcome' = outcome
            /\ submitted' = submitted
    /\ UNCHANGED << script, exitReason, file, last_processed_id, trade_ideas,
                    idx, bracket_orders, ORDER_ID_COUNTER, cursor0,
                    dispatched, polls, crashes, max_written,
                    open_orders,
                    issued, fetch_error, priceVars, allocVars, alertVars >>

\* The cursor update moved before the call of process_trade_idea.
AdvanceCursorSpeculative ==
    /\ pc \in {"process", "processed"}
    /\ last_processed_id' = Some(trade_id)
    /\ file' = FileWith(<<>>)
    /\ pc' = "writing"
    /\ open_orders' = None
    /\ UNCHANGED << script, exitReason, trade_ideas, idx, bracket_orders,
                    sent, ORDER_ID_COUNTER, reqIdSeq, placed, outcome,
                    cursor0, dispatched, polls, crashes, submitted,
                    max_written,
                    issued, fetch_error, priceVars, allocVars, alertVars >>

\* The cursor update made only for an idea whose bracket was submitted.
AdvanceCursorIfSubmitted ==
    /\ pc = "processed"
    /\ IF outcome = "submitted"
       THEN /\ last_processed_id' = Some(trade_id)
            /\ file' = FileWith(<<>>)
            /\ pc' = "writing"
            /\ idx' = idx
       ELSE /\ last_processed_id' = last_processed_id
            /\ file' = file
            /\ pc' = "iter"
            /\ idx' = idx + 1
    /\ open_orders' = None
    /\ UNCHANGED << script, exitReason, trade_ideas, bracket_orders,
                    sent, ORDER_ID_COUNTER, reqIdSeq, placed, outcome,
                    cursor0, dispatched, polls, crashes, submitted,
                    max_written,
                    issued, fetch_error, priceVars, allocVars, alertVars >>

\* Back in the for loop: last_processed_id = trade_id, and
\* write_last_processed_id opens the file with "w", which empties it.
AdvanceCursor ==
    /\ pc = "processed"
    /\ last_processed_id' = Some(trade_id)
    /\ file' = FileWith(<<>>)
    /\ pc' = "writing"
    /\ open_orders' = None
    /\ UNCHANGED << script, exitReason, trade_ideas, idx, bracket_orders,
                    sent, ORDER_ID_COUNTER, reqIdSeq, placed, outcome,
                    cursor0, dispatched, polls, crashes, submitted,
                    max_written,
                    issued, fetch_error, priceVars, allocVars, alertVars >>

\* write_last_processed_id returning with the text still in a buffer of the
\* process.
FlushCursorBuffered ==
    /\ pc = "writing"
    /\ idx' = idx + 1
    /\ pc' = "iter"
    /\ max_written' = Max({max_written, Val(last_processed_id)})
    /\ UNCHANGED << script, exitReason, file, last_processed_id, trade_ideas,
                    bracket_orders, sent, ORDER_ID_COUNTER, reqIdSeq, placed,
                    outcome, cursor0, dispatched, polls, crashes, submitted,
                    open_orders, issued, fetch_error, priceVars, allocVars,
                    alertVars >>

\* file.write(str(last_id)) and the close of the with block; the loop moves on.
FlushCursor ==
    /\ pc = "writing"
    /\ file' = FileWith(Str(Val(last_processed_id)))
    /\ idx' = idx + 1
    /\ pc' = "iter"
    /\ max_written' = Max({max_written, Val(last_processed_id)})
    /\ UNCHANGED << script, exitReason, last_processed_id, trade_ideas,
                    bracket_orders, sent, ORDER_ID_COUNTER, reqIdSeq, placed,
                    outcome, cursor0, dispatched, polls, crashes, submitted,
                    open_orders,
                    issued, fetch_error, priceVars, allocVars, alertVars >>

\* ------------------------------------------------------------- environment
\* The process is killed, wherever it is.
Crash ==
    /\ pc \notin {"down", "start"}
    /\ crashes < MaxCrashes
    /\ crashes' = crashes + 1
    /\ Down("killed")
    /\ UNCHANGED << script, file, reqIdSeq, placed, polls, max_written,
                    priceVars, allocVars, alertVars >>

\* The operator starts the program again.
Restart ==
    /\ pc = "down"
    /\ pc' = "start"
    /\ UNCHANGED << script, exitReason, file, last_processed_id, trade_ideas,
                    idx, bracket_orders, sent, ORDER_ID_COUNTER, reqIdSeq,
                    placed, outcome, cursor0, dispatched, polls, crashes,
                    submitted, max_written,
                    open_orders,
                    issued, fetch_error, priceVars, allocVars, alertVars >>

Next ==
    \/ Connect
    \/ ConnectFails
    \/ PollStp2
    \/ PollEntry
    \/ PollEntryTypeError
    \/ BeginTrade
    \/ IgnoreTrade
    \/ EndBatch
    \/ Sleep
    \/ InvalidActionStp2
    \/ QualifyFailsStp2
    \/ PriceFailsStp2
    \/ BuildStp2
    \/ QualifyFailsEntry
    \/ PriceFailsEntry
    \/ InvalidActionEntry
    \/ BuildEntry
    \/ PlaceOrder
    \/ AdvanceCursor
    \/ FlushCursor
    \/ Crash
    \/ Restart

Spec == Init /\ [][Next]_vars

\* ------------------------------------------- fetch_latest_price, step by step
\* A call of fetch_latest_price of ib_bridge_stp2.py begins; ticks[k] is what
\* the ticker shows after the ib.sleep(2) of the k-th pass.
InitPrice ==
    /\ InitLoop
    /\ script = STP2
    /\ ticks \in [1..retry_count -> TickQuotes]
    /\ attempt = 0
    /\ fetched = [state |-> "running", price |-> None]
    /\ IdleAlloc
    /\ IdleAlerts

\* One pass of `for attempt in range(retry_count)`: reqMktData, ib.sleep(2),
\* and a return when last or close is positive.
Attempt ==
    /\ fetched.state = "running"
    /\ attempt < retry_count
    /\ attempt' = attempt + 1
    /\ LET ticker == ticks[attempt + 1]
       IN fetched' = IF IsNone(QuotePrice(ticker)) THEN fetched
                     ELSE [state |-> "returned", price |-> QuotePrice(ticker)]
    /\ UNCHANGED << loopVars, ticks, allocVars, alertVars >>

\* The loop is through: raise ValueError.
RaiseValueError ==
    /\ fetched.state = "running"
    /\ attempt = retry_count
    /\ fetched' = [state |-> "raised", price |-> None]
    /\ UNCHANGED << loopVars, ticks, attempt, allocVars, alertVars >>

NextPrice ==
    \/ Attempt
    \/ RaiseValueError

SpecPrice == InitPrice /\ [][NextPrice]_vars

\* ------------------------------------------- the order id allocator, alone
\* The module is loaded (ORDER_ID_COUNTER = None) and its allocator functions
\* are called in any order.
InitAlloc ==
    /\ InitLoop
    /\ script = STP2
    /\ IdlePrice
    /\ calls = <<>>
    /\ IdleAlerts

\* What a call leaves in the log.
Call(fn, before, raised, ids, after) ==
    [fn |-> fn, before |-> before, raised |-> raised, ids |-> ids,
     after |-> after]

\* The variables of the polling loop the allocator does not touch.
allocFrame ==
    << script, pc, exitReason, file, last_processed_id, trade_ideas, idx,
       bracket_orders, sent, placed, outcome, cursor0, dispatched, submitted,
       open_orders, max_written, polls, crashes, issued, fetch_error >>

\* initialize_order_id(ib) is called.
CallInitializeOrderId ==
    /\ Len(calls) < MaxCalls
    /\ ORDER_ID_COUNTER' = initialize_order_id(ORDER_ID_COUNTER, reqIdSeq)
    /\ reqIdSeq' = IF IsNone(ORDER_ID_COUNTER) THEN reqIdSeq + 1 ELSE reqIdSeq
    /\ calls' = Append(calls, Call("initialize_order_id", ORDER_ID_COUNTER,
                                   FALSE, <<>>, ORDER_ID_COUNTER'))
    /\ UNCHANGED << allocFrame, priceVars, alertVars >>

\* get_next_order_id() is called.
CallGetNextOrderId ==
    /\ Len(calls) < MaxCalls
    /\ LET r == get_next_order_id_call(ORDER_ID_COUNTER)
       IN /\ ORDER_ID_COUNTER' = r.counter
          /\ calls' = Append(calls,
                 Call("get_next_order_id", ORDER_ID_COUNTER, r.raised,
                      IF IsNone(r.id) THEN <<>> ELSE << Val(r.id) >>,
                      r.counter))
    /\ UNCHANGED << allocFrame, reqIdSeq, priceVars, alertVars >>

\* process_trade_idea is called with an idea that gets as far as its
\* allocator calls.
CallProcessTradeIdea ==
    /\ Len(calls) < MaxCalls
    /\ LET r == allocate_bracket_ids(ORDER_ID_COUNTER, reqIdSeq)
       IN /\ ORDER_ID_COUNTER' = r.counter
          /\ calls' = Append(calls,
                 Call("process_trade_idea", ORDER_ID_COUNTER, r.raised,
                      r.ids, r.counter))
    /\ reqIdSeq' = IF IsNone(ORDER_ID_COUNTER) THEN reqIdSeq + 1 ELSE reqIdSeq
    /\ UNCHANGED << allocFrame, priceVars, alertVars >>

NextAlloc ==
    \/ CallInitializeOrderId
    \/ CallGetNextOrderId
    \/ CallProcessTradeIdea

SpecAlloc == InitAlloc /\ [][NextAlloc]_vars

\* ------------------------------------------------------------ external edit
\* Someone edits last_processed_id.txt by hand while the loop is between two
\* polling cycles.
EditCursor ==
    /\ pc = "poll"
    /\ polls < MaxPolls
    /\ \E n \in IdUniverse : file' = FileWith(Str(n))
    /\ file' # file
    /\ UNCHANGED << script, pc, exitReason, last_processed_id, trade_ideas,
                    idx, bracket_orders, sent, ORDER_ID_COUNTER, reqIdSeq,
                    placed, outcome, cursor0, dispatched, submitted,
                    open_orders, max_written, polls, crashes, issued,
                    fetch_error, priceVars, allocVars, alertVars >>

\* The program with such edits.
NextEdit ==
    \/ Next
    \/ EditCursor

SpecEdit == Init /\ [][NextEdit]_vars

\* --------------------------------------------------------- Discord alert bots
DAP == "discord_alert_processor"
BRIDGE == "AI_discord_bridge"
BRIDGE3 == "AI_discord_bridge3"
AlertScripts == {DAP, BRIDGE, BRIDGE3}

\* channels_config, in its order; each channel's sql_query selects the rows of
\* one stock, and symbol_mapping knows the stock of the first channel only.
ChannelNames == << "spx-alerts", "rty-alerts" >>
Channels == {ChannelNames[k] : k \in DOMAIN ChannelNames}
symbol_mapping == {"spx-alerts"}

\* The command lines tried: no argument, one channel of the configuration, a
\* name that is no channel.
PassedChannelSets == {{}, {"rty-alerts"}, {"no-such-channel"}}

\* The alert rows of esp..a, by the channel whose query selects them.
AlertRows == [channel : Channels, id : 1..MaxAlerts]

\* The filter of on_ready of discord_alert_processor.py and
\* AI_discord_bridge3.py: every channel when no argument was passed, else the
\* channels named. AI_discord_bridge.py loops over channels_config itself.
ChannelsToProcess(prog, passed) ==
    LET keep(k) == prog = BRIDGE \/ passed = {} \/ ChannelNames[k] \in passed
        F[k \in 0..Len(ChannelNames)] ==
            IF k = 0 THEN <<>>
            ELSE IF keep(k) THEN Append(F[k - 1], ChannelNames[k])
            ELSE F[k - 1]
    IN F[Len(ChannelNames)]

\* sql_query of a channel: the rows of its stock with no row in
\* discord..alert_log (TOP 5 of them; there are never more than that here).
Unlogged(ch) == {r \in source_rows : r.channel = ch /\ r \notin alert_log}

\* The rows that appear in the table of the message: all of them, except in
\* AI_discord_bridge3.py with show_futures, which leaves out the rows whose
\* stock is not in symbol_mapping.
TableRows(rows) ==
    IF script = BRIDGE3 /\ show_futures
    THEN {r \in rows : r.channel \in symbol_mapping}
    ELSE rows

\* fetch_and_post_alerts with no `except Exception` clause.
fetch_and_post_alerts_uncaught(ch, fault) ==
    LET rows == Unlogged(ch)
        connected == fault # "connect"
        committed == connected /\ fault # "query" /\ rows # {}
                               /\ fault # "insert"
        delivered == committed /\ fault \notin {"no_channel", "send"}
        raised == fault \in {"connect", "query", "insert", "send"}
    IN [conn_opened |-> connected,
        conn_closed |-> connected,
        log |-> IF committed THEN rows ELSE {},
        post |-> IF delivered THEN TableRows(rows) ELSE {},
        caught |-> FALSE,
        propagated |-> raised]

\* One call of fetch_and_post_alerts for channel ch, the same in the three
\* programs: connect, run the query, and when it has rows insert them into
\* discord..alert_log and commit, then look the channel up and send the table
\* if the lookup returned one. `fault` is what goes wrong: "connect", "query",
\* "insert" (the formatting, an insert or the commit raises: nothing is
\* committed, and the close rolls the inserts back), "no_channel" (the lookup
\* returns None), "send" (channel.send raises) or "none". Every exception
\* is caught and logged by `except Exception`, and `finally` closes the
\* connection when there is one. (A duplicate key on insert, which
\* discord_alert_processor.py skips, means the row is in the log already and
\* changes nothing here.)
fetch_and_post_alerts(ch, fault) ==
    LET rows == Unlogged(ch)
        connected == fault # "connect"
        committed == connected /\ fault # "query" /\ rows # {}
                               /\ fault # "insert"
        delivered == committed /\ fault \notin {"no_channel", "send"}
        raised == fault \in {"connect", "query", "insert", "send"}
    IN [conn_opened |-> connected,
        conn_closed |-> connected,
        log |-> IF committed THEN rows ELSE {},
        post |-> IF delivered THEN TableRows(rows) ELSE {},
        caught |-> raised,
        propagated |-> FALSE]

\* One of the three bots has logged in, and on_ready is about to run.
InitAlert ==
    /\ script \in AlertScripts
    /\ LoopAtRest
    /\ IdlePrice
    /\ IdleAlloc
    /\ passed_channels \in IF script = BRIDGE THEN {{}} ELSE PassedChannelSets
    /\ show_futures \in IF script = BRIDGE THEN {FALSE} ELSE BOOLEAN
    /\ channels_to_process = <<>>
    /\ bot_pc = "ready"
    /\ ch_i = 0
    /\ source_rows = {}
    /\ alert_log = {}
    /\ posted_rows = {}
    /\ open_conns = 0
    /\ cycle = 0
    /\ errors = {}
    /\ visited = <<>>

\* on_ready up to its while loop, with a channel to process.
OnReady ==
    /\ bot_pc = "ready"
    /\ ChannelsToProcess(script, passed_channels) # <<>>
    /\ channels_to_process' = ChannelsToProcess(script, passed_channels)
    /\ bot_pc' = "loop"
    /\ ch_i' = 1
    /\ cycle' = 1
    /\ UNCHANGED << loopVars, priceVars, allocVars, passed_channels,
                    show_futures, source_rows, alert_log, posted_rows,
                    open_conns, errors, visited >>

\* on_ready with no channel to process: the bot is closed and on_ready
\* returns.
OnReadyNoChannels ==
    /\ bot_pc = "ready"
    /\ ChannelsToProcess(script, passed_channels) = <<>>
    /\ bot_pc' = "closed"
    /\ UNCHANGED << loopVars, priceVars, allocVars, passed_channels,
                    show_futures, channels_to_process, ch_i, source_rows,
                    alert_log, posted_rows, open_conns, cycle, errors,
                    visited >>

\* One pass of the for loop of on_ready: fetch_and_post_alerts for the channel
\* it is at, with the given fault, and on to the next channel unless an
\* exception comes out of the call.
Fetch(fault) ==
    /\ bot_pc = "loop"
    /\ ch_i <= Len(channels_to_process)
    /\ LET ch == channels_to_process[ch_i]
           r == fetch_and_post_alerts(ch, fault)
       IN /\ alert_log' = alert_log \cup r.log
          /\ posted_rows' = posted_rows \cup r.post
          /\ open_conns' = IF r.conn_opened /\ ~r.conn_closed
                           THEN open_conns + 1 ELSE open_conns
          /\ errors' = IF r.caught \/ r.propagated
                       THEN errors \cup {<< cycle, ch >>} ELSE errors
          /\ visited' = Append(visited, ch)
          /\ bot_pc' = IF r.propagated THEN "dead" ELSE "loop"
          /\ ch_i' = IF r.propagated THEN ch_i ELSE ch_i + 1
    /\ UNCHANGED << loopVars, priceVars, allocVars, passed_channels,
                    show_futures, channels_to_process, source_rows, cycle >>

\* The channel being fetched for has rows the log does not hold.
HasRows ==
    /\ bot_pc = "loop"
    /\ ch_i <= Len(channels_to_process)
    /\ Unlogged(channels_to_process[ch_i]) # {}

\* pyodbc.connect (get_connection) raises.
FetchConnectFails ==
    /\ bot_pc = "loop"
    /\ Fetch("connect")

\* cursor.execute(sql_query) or fetchall raises.
FetchQueryFails ==
    /\ bot_pc = "loop"
    /\ Fetch("query")

\* The query returns no row.
FetchNoRows ==
    /\ ~HasRows
    /\ Fetch("none")

\* The formatting of the table, an insert into discord..alert_log or the
\* commit raises.
FetchInsertFails ==
    /\ HasRows
    /\ Fetch("insert")

\* The rows are committed and get_channel returns None.
FetchChannelMissing ==
    /\ HasRows
    /\ Fetch("no_channel")

\* The rows are committed and channel.send raises.
FetchSendFails ==
    /\ HasRows
    /\ Fetch("send")

\* The rows are committed and the message is sent.
FetchAndPost ==
    /\ HasRows
    /\ Fetch("none")

\* The for loop is through: await asyncio.sleep(POLL_INTERVAL).
EndPass ==
    /\ bot_pc = "loop"
    /\ ch_i > Len(channels_to_process)
    /\ bot_pc' = "sleeping"
    /\ UNCHANGED << loopVars, priceVars, allocVars, passed_channels,
                    show_futures, channels_to_process, ch_i, source_rows,
                    alert_log, posted_rows, open_conns, cycle, errors,
                    visited >>

\* The sleep returns and the next pass of `while True` begins.
NextPass ==
    /\ bot_pc = "sleeping"
    /\ cycle < MaxCycles
    /\ cycle' = cycle + 1
    /\ ch_i' = 1
    /\ visited' = <<>>
    /\ bot_pc' = "loop"
    /\ UNCHANGED << loopVars, priceVars, allocVars, passed_channels,
                    show_futures, channels_to_process, source_rows,
                    alert_log, posted_rows, open_conns, errors >>

\* The alert engine adds a row to esp..a (the rows of a channel in the order
\* of their ids).
NewAlert ==
    /\ bot_pc \in {"ready", "loop", "sleeping"}
    /\ \E r \in AlertRows \ source_rows :
         /\ \A k \in 1..(r.id - 1) :
              [channel |-> r.channel, id |-> k] \in source_rows
         /\ source_rows' = source_rows \cup {r}
    /\ UNCHANGED << loopVars, priceVars, allocVars, passed_channels,
                    show_futures, channels_to_process, bot_pc, ch_i,
                    alert_log, posted_rows, open_conns, cycle, errors,
                    visited >>

NextAlert ==
    \/ OnReady
    \/ OnReadyNoChannels
    \/ FetchConnectFails
    \/ FetchQueryFails
    \/ FetchNoRows
    \/ FetchInsertFails
    \/ FetchChannelMissing
    \/ FetchSendFails
    \/ FetchAndPost
    \/ EndPass
    \/ NextPass
    \/ NewAlert

SpecAlert == InitAlert /\ [][NextAlert]_vars

\* ------------------------------------------------------------------ claims
\* Where the process is inside a polling cycle, after its fetch.
CyclePcs == {"iter", "process", "place", "processed", "writing", "sleep"}
SkipOutcomes == {"invalid_action", "unqualified", "throttled"}

CursorNum(c) == IF IsNone(c) THEN 0 ELSE Val(c)
BatchIds == {IntOf(trade_ideas[k].ID) : k \in DOMAIN trade_ideas}
DispatchedIds == {dispatched[k] : k \in DOMAIN dispatched}
LastDispatched == dispatched[Len(dispatched)]

\* The cycle's batch holds only ids at or below the cursor the cycle began with.
CycleAllOld ==
    /\ pc \in CyclePcs
    /\ ~IsNone(cursor0)
    /\ \A n \in BatchIds : n <= Val(cursor0)

\* C1 (idempotence): in a polling cycle whose batch holds only ids at or below
\* the current cursor, no step places an order, no step touches the cursor
\* file, and the coordinator's own cursor stays as it is while the process
\* lives.
C1_Idempotence ==
    [][CycleAllOld =>
         /\ placed' = placed
         /\ file' = file
         /\ pc' # "down" => last_processed_id' = last_processed_id]_vars

\* A cycle over a non-empty batch of old ids ran to its end, after an earlier
\* cycle had placed orders.
C1_Witness ==
    /\ pc = "sleep"
    /\ CycleAllOld
    /\ trade_ideas # <<>>
    /\ placed # <<>>

\* The placeOrder calls that completed a bracket for idea n: its last leg.
BracketsFor(n) ==
    {k \in DOMAIN placed :
        placed[k].idea = n /\ placed[k].order.role = "StopLoss"}

\* C2 (at-most-once): whatever the cycles, crashes and restarts, the broker
\* receives the complete bracket of one trade-idea id at most once.
C2_AtMostOnce == \A n \in IdUniverse : Cardinality(BracketsFor(n)) <= 1

\* The dispatch of the current idea is over: its three legs are the last three
\* orders the broker received, or it was skipped and no leg was placed.
DispatchFinished ==
    /\ pc \in {"processed", "writing"}
    /\ \/ /\ outcome = "submitted"
          /\ sent = 3
          /\ Len(placed) >= 3
          /\ \A j \in 1..3 :
               /\ placed[Len(placed) - 3 + j].idea = trade_id
               /\ placed[Len(placed) - 3 + j].order.role = bracket_orders[j].role
       \/ /\ outcome \in SkipOutcomes
          /\ sent = 0

\* C3 (write-after-complete): every step that changes the cursor file happens
\* after the dispatch of the idea has finished, and writes that idea's id (or
\* the empty text that opening the file leaves first).
C3_WriteAfterComplete ==
    [][file' # file =>
         /\ DispatchFinished
         /\ file'.text \in {<<>>, Str(trade_id)}]_vars

\* The id of an idea whose three legs were placed has been written.
C3_Witness ==
    /\ pc = "iter"
    /\ outcome = "submitted"
    /\ dispatched # <<>>
    /\ file = FileWith(Str(LastDispatched))

\* C4 (monotonic cursor): inside a polling cycle the cursor the coordinator
\* works with is never below an id that an earlier write_last_processed_id
\* call, of this process or of one before a restart, returned with.
C4_MonotonicCursor ==
    pc \in CyclePcs => CursorNum(last_processed_id) >= max_written

\* C5 as stated: after a cycle the cursor is the largest id whose bracket was
\* submitted in it, and skipped ideas leave the cursor where it was.
C5_CursorIsMaxSubmitted ==
    (pc = "sleep" /\ trade_ideas # <<>>) =>
        IF submitted # {}
        THEN last_processed_id = Some(Max(submitted))
        ELSE last_processed_id = cursor0

\* C5 (amended): after a cycle that ran to its end the cursor, local and in the
\* file, is the largest id passed to process_trade_idea in the cycle, submitted
\* or skipped; with no idea passed the cursor is the one the cycle began with.
C5_CursorIsMaxDispatched ==
    pc = "sleep" =>
        IF dispatched # <<>>
        THEN /\ last_processed_id = Some(Max(DispatchedIds))
             /\ file = FileWith(Str(Max(DispatchedIds)))
        ELSE last_processed_id = cursor0

\* A cycle ended in which a bracket was submitted and a later idea skipped.
C5_Witness ==
    /\ pc = "sleep"
    /\ submitted # {}
    /\ DispatchedIds \ submitted # {}
    /\ Max(DispatchedIds) \notin submitted

\* Ids of the batch above the cursor the cycle began with.
NewIds == {n \in BatchIds : IsNone(cursor0) \/ n > CursorNum(cursor0)}
\* The k-th smallest of a set of numbers.
Nth(S, k) == CHOOSE x \in S : Cardinality({y \in S : y < x}) = k - 1

\* C6 (ordering): the ids passed to process_trade_idea in a cycle are, in
\* order, the ids of the batch above the cursor in ascending numeric order:
\* at every point a prefix of that list, and all of it when the cycle ends.
C6_AscendingDispatch ==
    pc \in CyclePcs =>
        /\ Len(dispatched) <= Cardinality(NewIds)
        /\ \A k \in DOMAIN dispatched : dispatched[k] = Nth(NewIds, k)
        /\ pc = "sleep" => Len(dispatched) = Cardinality(NewIds)

\* C7 (fault isolation): with ideas of the batch still to come, no way
\* process_trade_idea ends for one idea takes the process down.
C7_FaultIsolation ==
    [][(pc = "process" /\ idx < Len(trade_ideas) /\ crashes' = crashes)
          => pc' # "down"]_vars

\* C8 (loop liveness): the polling loop is never ended by a price that cannot
\* be resolved.
C8_LoopSurvives == ~(pc = "down" /\ exitReason = "ValueError")

\* C9 as stated: the cursor file never holds the id of an idea that was
\* skipped.
C9_SkipKeepsCursor ==
    (pc \in {"iter", "sleep"} /\ outcome \in SkipOutcomes) =>
        file # FileWith(Str(LastDispatched))

\* C9 (amended): once the loop has moved past an idea that was skipped, the
\* cursor, local and in the file, is that idea's id.
C9_SkipAdvancesCursor ==
    (pc \in {"iter", "sleep"} /\ outcome \in SkipOutcomes) =>
        /\ last_processed_id = Some(LastDispatched)
        /\ file = FileWith(Str(LastDispatched))

\* The loop moved past an idea skipped for its action code, after a bracket
\* was submitted for an earlier one.
C9_Witness ==
    /\ pc = "iter"
    /\ outcome = "invalid_action"
    /\ submitted # {}
    /\ file = FileWith(Str(LastDispatched))

\* C10 (bracket linkage, ib_bridge_stp2.py): in every bracket built, both
\* children name the Entry's order id as parent, and only the StopLoss leg
\* transmits.
C10_LinkageStp2 ==
    (script = STP2 /\ bracket_orders # <<>>) =>
        /\ Len(bracket_orders) = 3
        /\ bracket_orders[1].role = "Entry"
        /\ bracket_orders[2].role = "TakeProfit"
        /\ bracket_orders[3].role = "StopLoss"
        /\ bracket_orders[2].parentId = bracket_orders[1].orderId
        /\ bracket_orders[3].parentId = bracket_orders[1].orderId
        /\ bracket_orders[1].transmit = FALSE
        /\ bracket_orders[2].transmit = FALSE
        /\ bracket_orders[3].transmit = TRUE

\* ib_bridge_stp2.py has built a bracket and is about to place it.
C10_Witness ==
    /\ script = STP2
    /\ pc = "place"
    /\ sent = 0
    /\ Len(bracket_orders) = 3

\* C11 (bracket linkage, ib_bridge.py): in every bracket built, the fields
\* orderId, parentId and transmit that placeOrder sends link both children to
\* the Entry's order id, and only the StopLoss leg transmits.
C11_LinkageEntry ==
    (script = ENTRY /\ bracket_orders # <<>>) =>
        /\ bracket_orders[2].parentId = bracket_orders[1].orderId
        /\ bracket_orders[3].parentId = bracket_orders[1].orderId
        /\ bracket_orders[1].transmit = FALSE
        /\ bracket_orders[2].transmit = FALSE
        /\ bracket_orders[3].transmit = TRUE

\* Legs the broker has received that name order id e as their parent.
ChildrenOf(e) == {j \in DOMAIN placed : placed[j].order.parentId = e}

\* The broker holds an order sent with transmit = False until an order of its
\* bracket arrives with transmit = True; one sent with transmit = True is live
\* at once.
Live(k) ==
    \/ placed[k].order.transmit
    \/ \E j \in ChildrenOf(placed[k].order.orderId) : placed[j].order.transmit

\* C12 (bracket atomicity, ib_bridge_stp2.py): whatever has reached the
\* broker, also when the process was killed between two placeOrder calls, an
\* Entry leg that is live has its StopLoss leg at the broker.
C12_Atomicity ==
    script = STP2 =>
        \A k \in DOMAIN placed :
            (placed[k].order.role = "Entry" /\ Live(k)) =>
                \E j \in ChildrenOf(placed[k].order.orderId) :
                    placed[j].order.role = "StopLoss"

\* ib_bridge_stp2.py was killed after the TakeProfit leg and before the
\* StopLoss leg.
C12_Witness ==
    /\ script = STP2
    /\ pc = "down"
    /\ exitReason = "killed"
    /\ placed # <<>>
    /\ placed[Len(placed)].order.role = "TakeProfit"

\* C13 (submission order): every TakeProfit leg reaches the broker right after
\* the Entry leg of its idea and every StopLoss leg right after that
\* TakeProfit leg, and a leg carries transmit = true exactly when it is the
\* StopLoss leg.
C13_SubmissionOrder ==
    \A k \in DOMAIN placed :
        /\ placed[k].order.transmit = (placed[k].order.role = "StopLoss")
        /\ placed[k].order.role = "TakeProfit" =>
               /\ k > 1
               /\ placed[k - 1].order.role = "Entry"
               /\ placed[k - 1].idea = placed[k].idea
        /\ placed[k].order.role = "StopLoss" =>
               /\ k > 1
               /\ placed[k - 1].order.role = "TakeProfit"
               /\ placed[k - 1].idea = placed[k].idea

\* The entry price of a bracket: the limit price of the Entry leg in
\* ib_bridge.py, its stop price in ib_bridge_stp2.py.
EntryPrice(b) == IF script = ENTRY THEN b[1].lmtPrice ELSE b[1].auxPrice

\* C14 (sign symmetry): in every bracket built the stop-loss price is below
\* the entry price for a BUY entry and above it for a SELL entry.
C14_SignSymmetry ==
    bracket_orders # <<>> =>
        IF bracket_orders[1].action = "BUY"
        THEN bracket_orders[3].auxPrice < EntryPrice(bracket_orders)
        ELSE bracket_orders[3].auxPrice > EntryPrice(bracket_orders)

\* The prices fetch_latest_price of ib_bridge.py can return.
ResolvedPricesEntry == {Val(p) : p \in PriceResultsEntry \ {None}}

\* C15 (favourable offsets, ib_bridge.py): in every bracket built the entry
\* price is the quote plus the entry offset for BUY and minus it for SELL,
\* and the take-profit price is above the entry price for BUY and below it
\* for SELL.
C15_FavourableOffsets ==
    (script = ENTRY /\ bracket_orders # <<>>) =>
        IF bracket_orders[1].action = "BUY"
        THEN /\ \E q \in ResolvedPricesEntry :
                  bracket_orders[1].lmtPrice = q + ConfigEntry.entry_price_offset
             /\ bracket_orders[2].lmtPrice > bracket_orders[1].lmtPrice
        ELSE /\ \E q \in ResolvedPricesEntry :
                  bracket_orders[1].lmtPrice = q - ConfigEntry.entry_price_offset
             /\ bracket_orders[2].lmtPrice < bracket_orders[1].lmtPrice

\* ib_bridge.py has gone through a batch holding the one idea 101, side B,
\* that it began with the cursor at 100, and has placed the bracket; the quote
\* was 5000 and the offsets are 2, 10 and 15.
C16_Witness ==
    /\ script = ENTRY
    /\ pc = "iter"
    /\ idx = 2
    /\ cursor0 = Some(100)
    /\ Len(trade_ideas) = 1
    /\ IntOf(trade_ideas[1].ID) = 101
    /\ trade_ideas[1].BuySell = "B"
    /\ outcome = "submitted"
    /\ ResolvedPricesEntry = {5000}
    /\ ConfigEntry =
         [entry_price_offset |-> 2, stop_loss_price |-> 10, limit_price |-> 15]

\* C16 (end-to-end scenario, ib_bridge.py): with cursor 100, the one idea 101
\* with side B, price 5000 and offsets 2, 10 and 15, the bracket placed is a
\* limit BUY entry at 5002, a SELL take profit at 5017 and a SELL stop loss at
\* 4992, and the cursor, local and in the file, is 101.
C16_Scenario ==
    C16_Witness =>
        /\ Len(placed) >= 3
        /\ LET n == Len(placed)
               entry == placed[n - 2]
               take_profit == placed[n - 1]
               stop_loss == placed[n]
           IN /\ entry.idea = 101
              /\ take_profit.idea = 101
              /\ stop_loss.idea = 101
              /\ entry.order.role = "Entry"
              /\ entry.order.orderType = "LMT"
              /\ entry.order.action = "BUY"
              /\ entry.order.lmtPrice = 5002
              /\ take_profit.order.role = "TakeProfit"
              /\ take_profit.order.action = "SELL"
              /\ take_profit.order.lmtPrice = 5017
              /\ stop_loss.order.role = "StopLoss"
              /\ stop_loss.order.action = "SELL"
              /\ stop_loss.order.auxPrice = 4992
        /\ last_processed_id = Some(101)
        /\ file = FileWith(Str(101))

\* C17 (throttle without id consumption, ib_bridge.py): a call of
\* process_trade_idea that ends without placing because the open BUY orders
\* are at the ceiling leaves the next order id of the session as it was.
C17_ThrottleKeepsIds ==
    [][(/\ script = ENTRY
        /\ pc = "process"
        /\ outcome' = "throttled"
        /\ Val(open_orders').buy_orders >= ORDER_LIMIT)
       => reqIdSeq' = reqIdSeq]_vars

\* C18 (throttle threshold, ib_bridge.py): once check_order_limit has counted,
\* the bracket is on its way to the broker, or has got there, exactly when
\* both counts are below 15; otherwise process_trade_idea has returned with
\* no leg placed.
C18_ThrottleThreshold ==
    (script = ENTRY /\ ~IsNone(open_orders)) =>
        IF Val(open_orders).buy_orders < 15 /\ Val(open_orders).sell_orders < 15
        THEN \/ pc = "place" /\ outcome = "none"
             \/ pc = "processed" /\ outcome = "submitted" /\ sent = 3
        ELSE pc = "processed" /\ outcome = "throttled" /\ sent = 0

\* ib_bridge.py skipped an idea with the SELL side alone at the ceiling.
C18_Witness ==
    /\ script = ENTRY
    /\ pc = "processed"
    /\ outcome = "throttled"
    /\ open_orders = Some([buy_orders |-> 14, sell_orders |-> 15])

\* C19 (throttle before dispatch, ib_bridge_stp2.py): no leg of a bracket is
\* placed while the broker holds MAX_ORDERS or more open orders on either
\* side.
C19_ThrottleStp2 ==
    (script = STP2 /\ ~IsNone(open_orders) /\ sent > 0) =>
        /\ Val(open_orders).buy_orders < MAX_ORDERS
        /\ Val(open_orders).sell_orders < MAX_ORDERS

\* C20 (order ids never repeat, ib_bridge_stp2.py): the ids a bracket_order
\* call draws from get_next_order_id rise from leg to leg and lie above the
\* counter the call found, the counter is left at the last of them, and no two
\* legs at the broker share an order id.
C20_OrderIdsIncrease ==
    [][script = STP2 =>
         /\ (bracket_orders' # bracket_orders /\ bracket_orders' # <<>>) =>
                /\ bracket_orders'[1].orderId < bracket_orders'[2].orderId
                /\ bracket_orders'[2].orderId < bracket_orders'[3].orderId
                /\ ORDER_ID_COUNTER' = Some(bracket_orders'[3].orderId)
                /\ IF IsNone(ORDER_ID_COUNTER) THEN TRUE
                   ELSE bracket_orders'[1].orderId > Val(ORDER_ID_COUNTER)
         /\ \A i, j \in DOMAIN placed' :
                i # j => placed'[i].order.orderId # placed'[j].order.orderId
      ]_vars

\* ib_bridge_stp2.py has built a second bracket in a session, after it placed
\* a first one.
C20_Witness ==
    /\ script = STP2
    /\ pc = "place"
    /\ Len(dispatched) = 2
    /\ submitted # {}
    /\ Len(bracket_orders) = 3

\* C21 (order ids never repeat, ib_bridge.py): the ids bracket_order gives the
\* legs of a new bracket are ids it has given to no leg before in this
\* process.
C21_OrderIdsFresh ==
    [][(script = ENTRY /\ pc = "process" /\ bracket_orders' # <<>>) =>
         \A k \in 1..3 : bracket_orders'[k].OrderId \notin issued]_vars

\* C22 (three consecutive ids, ib_bridge_stp2.py): a bracket_order call gives
\* the Entry, TakeProfit and StopLoss legs the ids n, n + 1 and n + 2, n being
\* one above the counter after initialize_order_id, and leaves the counter 3
\* higher.
C22_ThreeConsecutiveIds ==
    [][(script = STP2 /\ pc = "process" /\ pc' = "place") =>
         LET c == IF IsNone(ORDER_ID_COUNTER) THEN reqIdSeq
                  ELSE Val(ORDER_ID_COUNTER)
         IN /\ Len(bracket_orders') = 3
            /\ bracket_orders'[1].role = "Entry"
            /\ bracket_orders'[2].role = "TakeProfit"
            /\ bracket_orders'[3].role = "StopLoss"
            /\ bracket_orders'[1].orderId = c + 1
            /\ bracket_orders'[2].orderId = bracket_orders'[1].orderId + 1
            /\ bracket_orders'[3].orderId = bracket_orders'[1].orderId + 2
            /\ ORDER_ID_COUNTER' = Some(c + 3)]_vars

\* ib_bridge_stp2.py has placed a bracket and the counter stands at the id of
\* its StopLoss leg.
C22_Witness ==
    /\ script = STP2
    /\ pc = "processed"
    /\ outcome = "submitted"
    /\ ORDER_ID_COUNTER = Some(bracket_orders[3].orderId)

\* C23 (seeded once, ib_bridge_stp2.py): while the process lives, a counter
\* that is set stays set; the step that builds a bracket takes an id from the
\* broker only when the counter is not set, and otherwise moves the counter on
\* from where it stood; no other step changes it.
C23_SeededOnce ==
    [][(script = STP2 /\ pc' # "down") =>
         IF pc = "process" /\ pc' = "place"
         THEN IF IsNone(ORDER_ID_COUNTER)
              THEN /\ ORDER_ID_COUNTER' = Some(reqIdSeq + 3)
                   /\ reqIdSeq' = reqIdSeq + 1
              ELSE /\ ORDER_ID_COUNTER' = Some(Val(ORDER_ID_COUNTER) + 3)
                   /\ reqIdSeq' = reqIdSeq
         ELSE ORDER_ID_COUNTER' = ORDER_ID_COUNTER]_vars

\* ib_bridge_stp2.py has placed two brackets in one polling cycle.
C23_Witness ==
    /\ script = STP2
    /\ pc = "processed"
    /\ outcome = "submitted"
    /\ Cardinality(submitted) = 2

\* The cursor the store holds, as the program's read_last_processed_id reads
\* it.
StoredCursor ==
    IF script = STP2 THEN read_last_processed_id_stp2(file)
    ELSE read_last_processed_id_entry(file)

\* C24 (cursor re-read every cycle): the cursor a polling cycle works with is
\* the one the store holds when the cycle starts, also when the store was
\* edited from outside since the cycle before.
C24_CursorRereadEachCycle ==
    [][(pc = "poll" /\ pc' \in {"iter", "sleep"}) =>
         cursor0' = StoredCursor]_vars

\* The codes that stand for Long and for Short.
LongCodes == {"L", "Long", "B", "Buy"}
ShortCodes == {"S", "Short", "Sell"}

\* C25 (action mapping): an idea is skipped for its action code only when the
\* code is none of L, Long, B, Buy, S, Short, Sell, and a bracket that is
\* built has a BUY entry for the first four and a SELL entry for the other
\* three.
C25_ActionMapping ==
    /\ (pc = "processed" /\ outcome = "invalid_action") =>
           trade.BuySell \notin LongCodes \cup ShortCodes
    /\ pc = "place" =>
           /\ trade.BuySell \in LongCodes \cup ShortCodes
           /\ bracket_orders[1].action =
                  IF trade.BuySell \in LongCodes THEN "BUY" ELSE "SELL"

\* C26 (feed failure is transient): a fetch that fails takes the loop to its
\* sleep with an empty batch, no order placed and the cursor store as it was,
\* and the sleep after it leads to the next poll, again with nothing placed
\* and nothing written.
C26_FeedFailureIsEmptyBatch ==
    [][/\ (pc = "poll" /\ fetch_error') =>
              /\ pc' = "sleep"
              /\ trade_ideas' = <<>>
              /\ placed' = placed
              /\ file' = file
       /\ (pc = "sleep" /\ fetch_error /\ crashes' = crashes) =>
              /\ pc' = "poll"
              /\ placed' = placed
              /\ file' = file
              /\ last_processed_id' = last_processed_id]_vars

\* A fetch failed in a cycle after one that wrote the cursor.
C26_Witness ==
    /\ pc = "sleep"
    /\ fetch_error
    /\ max_written > 0
    /\ file = FileWith(Str(max_written))

\* The k-th pass of fetch_latest_price sees neither a positive last nor a
\* positive close.
NoPriceAt(k) == ticks[k].last <= 0 /\ ticks[k].close <= 0

\* C27 (bounded price retry, ib_bridge_stp2.py): fetch_latest_price makes at
\* most 3 passes; it returns at the first pass that sees a positive last or
\* close, with last when last is positive and close otherwise; it raises
\* after 3 passes that saw neither, and only then; and every step of a call
\* that runs ends it or uses up one of the 3 passes.
C27_BoundedPriceRetry ==
    [][/\ attempt' <= 3
       /\ fetched.state = "running" =>
              fetched'.state # "running" \/ attempt' = attempt + 1
       /\ fetched'.state = "returned" =>
              /\ attempt' \in 1..3
              /\ \A k \in 1..(attempt' - 1) : NoPriceAt(k)
              /\ ~NoPriceAt(attempt')
              /\ fetched'.price =
                     IF ticks[attempt'].last > 0
                     THEN Some(ticks[attempt'].last)
                     ELSE Some(ticks[attempt'].close)
              /\ fetched'.price = fetch_latest_price_stp2(ticks)
       /\ fetched'.state = "raised" =>
              /\ attempt' = 3
              /\ \A k \in 1..3 : NoPriceAt(k)
              /\ IsNone(fetch_latest_price_stp2(ticks))
       /\ (\A k \in 1..3 : NoPriceAt(k)) => fetched'.state # "returned"
      ]_vars

\* fetch_latest_price returned the close price of its third pass.
C27_Witness ==
    /\ fetched.state = "returned"
    /\ attempt = 3
    /\ ticks[3].last = 0
    /\ fetched.price = Some(ticks[3].close)

\* The prices fetch_latest_price of ib_bridge_stp2.py can return.
ResolvedPricesStp2 == {Val(p) : p \in PriceResultsStp2 \ {None}}

\* C28 (stop-entry policy, ib_bridge_stp2.py): the Entry of every bracket
\* built is a stop-limit order whose stop price and limit price are the quote
\* plus the stop offset and plus the limit offset for BUY, minus them for
\* SELL; the take profit and the stop loss lie at their offsets from the stop
\* price.
C28_StopEntryPolicy ==
    (script = STP2 /\ bracket_orders # <<>>) =>
        LET entry == bracket_orders[1]
            sign == IF entry.action = "BUY" THEN 1 ELSE -1
        IN /\ entry.orderType = "STP LMT"
           /\ \E q \in ResolvedPricesStp2 :
                  /\ entry.auxPrice = q + sign * ConfigStp2.stop_offset
                  /\ entry.lmtPrice = q + sign * ConfigStp2.limit_offset
           /\ bracket_orders[2].lmtPrice =
                  entry.auxPrice + sign * ConfigStp2.take_profit_offset
           /\ bracket_orders[3].auxPrice =
                  entry.auxPrice - sign * Abs(ConfigStp2.stop_loss_offset)

\* ib_bridge_stp2.py has placed a bracket with a SELL entry.
C28_Witness ==
    /\ script = STP2
    /\ pc = "processed"
    /\ outcome = "submitted"
    /\ bracket_orders[1].action = "SELL"

\* C29 (leg roles): every bracket built is Entry, TakeProfit, StopLoss, the
\* Entry names no parent, both children are on the other side than the Entry,
\* and the three quantities are equal.
C29_LegRoles ==
    bracket_orders # <<>> =>
        /\ Len(bracket_orders) = 3
        /\ bracket_orders[1].role = "Entry"
        /\ bracket_orders[2].role = "TakeProfit"
        /\ bracket_orders[3].role = "StopLoss"
        /\ bracket_orders[1].parentId = 0
        /\ bracket_orders[1].action \in {"BUY", "SELL"}
        /\ \A k \in {2, 3} :
               /\ bracket_orders[k].action \in {"BUY", "SELL"}
               /\ bracket_orders[k].action # bracket_orders[1].action
               /\ bracket_orders[k].totalQuantity =
                      bracket_orders[1].totalQuantity

\* ib_bridge.py has built a bracket with a SELL entry and is about to place
\* it.
C29_Witness ==
    /\ script = ENTRY
    /\ pc = "place"
    /\ sent = 0
    /\ bracket_orders[1].action = "SELL"

\* C30 (durable cursor write): a write_last_processed_id call returns with its
\* id in the store; the store changes only inside such a call, so not by a
\* kill, a restart or a connect; and the reads of the cursor, at the connect
\* of ib_bridge.py and at every poll of ib_bridge_stp2.py, return what the
\* store holds.
C30_DurableWrite ==
    [][/\ (pc = "writing" /\ pc' = "iter") =>
              /\ file' = FileWith(Str(Val(last_processed_id)))
              /\ StoredCursor' = last_processed_id
       /\ file' # file =>
              \/ pc = "processed" /\ pc' = "writing"
              \/ pc = "writing" /\ pc' = "iter"
       /\ (script = ENTRY /\ pc = "start" /\ pc' = "poll") =>
              last_processed_id' = StoredCursor
       /\ (script = STP2 /\ pc = "poll" /\ pc' \in {"iter", "sleep"}) =>
              last_processed_id' = StoredCursor
      ]_vars

\* ib_bridge.py was killed and started again, and has read back the highest
\* id a write ever returned with.
C30_Witness ==
    /\ script = ENTRY
    /\ pc = "poll"
    /\ crashes > 0
    /\ exitReason = "killed"
    /\ max_written > 0
    /\ file = FileWith(Str(max_written))
    /\ last_processed_id = Some(max_written)

\* C31: in ib_bridge_stp2.py a get_next_order_id call made while
\* ORDER_ID_COUNTER is still None raises, returns no id and leaves the global
\* None; and the allocator calls of process_trade_idea (the seeding first,
\* then the three get_next_order_id calls) never raise and give three ids,
\* whatever the global was on entry.
C31_AllocatorFailsFast ==
    \A k \in 1..Len(calls) :
      LET c == calls[k]
      IN /\ (c.fn = "get_next_order_id" /\ IsNone(c.before))
              => (c.raised /\ c.ids = <<>> /\ IsNone(c.after))
         /\ c.fn = "process_trade_idea"
              => (~c.raised /\ Len(c.ids) = 3 /\ ~IsNone(c.after))

\* get_next_order_id has been called on the unseeded global, and after it
\* process_trade_idea, still unseeded on entry, has allocated its three ids.
C31_Witness ==
    \E j, k \in 1..Len(calls) :
      /\ j < k
      /\ calls[j].fn = "get_next_order_id"
      /\ IsNone(calls[j].before)
      /\ calls[j].raised
      /\ calls[k].fn = "process_trade_idea"
      /\ IsNone(calls[k].before)
      /\ Len(calls[k].ids) = 3

\* C32 (filter completeness): when a polling cycle has run to its end without
\* an exception, every id of the fetched batch above the cursor the cycle
\* began with has been passed to process_trade_idea in it.
C32_FilterComplete ==
    pc = "sleep" => NewIds \subseteq DispatchedIds

\* C33 (skip-and-advance as implemented): when a polling cycle over a
\* non-empty batch has run to its end without an exception, the cursor in the
\* store, as the program reads it, is the larger of the cursor the cycle began
\* with and the largest id of the batch, whatever became of each idea.
C33_CursorIsMaxOfBatch ==
    (pc = "sleep" /\ trade_ideas # <<>>) =>
        CursorNum(StoredCursor) = Max({CursorNum(cursor0)} \cup BatchIds)

\* A cycle that began with a cursor ended with the largest id of its batch
\* dispatched and not submitted, beside an id the filter let pass by.
C33_Witness ==
    /\ pc = "sleep"
    /\ trade_ideas # <<>>
    /\ CursorNum(cursor0) > 0
    /\ Max(BatchIds) \in DispatchedIds
    /\ Max(BatchIds) \notin submitted
    /\ BatchIds \ DispatchedIds # {}

\* The ways process_trade_idea rejects an idea.
RejectedOutcomes == {"invalid_action", "unqualified"}

\* C34 (rejected ideas have no broker side effects): the step in which
\* process_trade_idea rejects an idea for its action code or for a failed
\* contract qualification, and every later step of that idea's dispatch,
\* hands no order to the broker and takes no order id: the broker's log, the
\* next getReqId value, ORDER_ID_COUNTER and the ids given to legs stay as
\* they are, and no leg of the idea counts as sent.
C34_RejectedNoSideEffects ==
    [][outcome' \in RejectedOutcomes =>
         /\ placed' = placed
         /\ reqIdSeq' = reqIdSeq
         /\ ORDER_ID_COUNTER' = ORDER_ID_COUNTER
         /\ issued' = issued
         /\ sent' = 0]_vars

\* An idea has been rejected after an earlier one had its bracket placed.
C34_Witness ==
    /\ pc = "processed"
    /\ outcome \in RejectedOutcomes
    /\ placed # <<>>
    /\ dispatched # <<>>
    /\ \A k \in DOMAIN placed : placed[k].idea # LastDispatched

\* C35 (a crash during a cursor write is harmless): when the process is
\* killed inside write_last_processed_id, the cursor the store then holds, as
\* the program will read it on restart, is the one it held before the call
\* (the last id a write returned with) or the id being written.
C35_CrashInWriteHarmless ==
    [][(pc = "writing" /\ pc' = "down") =>
         CursorNum(StoredCursor') \in
             {max_written, CursorNum(last_processed_id)}]_vars

\* C36 (alert bot, no lost alerts): between two fetch_and_post_alerts calls
\* every row committed to discord..alert_log has also been posted to its
\* Discord channel.
C36_LoggedIsPosted == alert_log \subseteq posted_rows

\* C37 (alert bot, per-channel fault isolation): no exception of a
\* fetch_and_post_alerts call ends on_ready; no connection stays open after a
\* call; the for loop has run the call for every channel before the one it is
\* at, and for all of them when the pass ends, whatever failed on the way; and
\* from the sleep the next pass can begin.
C37_ChannelFaultIsolation ==
    /\ bot_pc # "dead"
    /\ open_conns = 0
    /\ bot_pc = "loop" =>
           visited = SubSeq(channels_to_process, 1, ch_i - 1)
    /\ bot_pc = "sleeping" => visited = channels_to_process
    /\ (bot_pc = "sleeping" /\ cycle < MaxCycles) => ENABLED NextPass

\* The call for the first of two channels raised in the first pass, the rows
\* of the second channel were posted in that pass, and the second pass has
\* begun.
C37_Witness ==
    /\ bot_pc = "loop"
    /\ cycle = 2
    /\ visited = <<>>
    /\ channels_to_process = ChannelNames
    /\ << 1, ChannelNames[1] >> \in errors
    /\ \E r \in posted_rows : r.channel = ChannelNames[2]

====
